---- MODULE Spec2Model ----
(***************************************************************************)
(* Model of MysteryShopperAI (src/app.py): the instance state set up by    *)
(* __init__ and the browse-act-observe loop of run_journey, with its two   *)
(* Oracle helpers get_ai_decision and analyze_screenshot_ux.               *)
(*                                                                         *)
(* One action per awaited operation of run_journey.  Every outcome of an   *)
(* external collaborator (Playwright page, Gemini client, progress         *)
(* callback) is a nondeterministic choice inside the action that awaits    *)
(* it.  Variables whose name starts with g are history variables: they     *)
(* record what the run did and are never read by the modelled code.        *)
(***************************************************************************)
EXTENDS Integers, Sequences, FiniteSets, TLC

\* ---------------------------------------------------------------- bounds
MaxSteps == 2        \* steps one instance is asked for, over all its calls
MaxRuns  == 2        \* calls of run_journey made on one instance

\* ---------------------------------------------------------------- state
VARIABLES
    screenshots,     \* self.screenshots                       (line 16)
    action_history,  \* self.action_history                    (line 17)
    pc,              \* position of the active run_journey call
    max_steps,       \* parameter max_steps
    observer,        \* parameter progress_callback: "none" or "callback"
    step,            \* loop variable of line 163 (0 before the loop)
    page_loaded,     \* local page_loaded                      (line 137)
    screenshot_path, \* local screenshot_path                  (line 169)
    decision,        \* local decision                         (line 182)
    ux_analysis,     \* local ux_analysis                      (line 183)
    clicked,         \* local clicked                          (line 207)
    strategy,        \* index of the locator strategy being tried (line 211)
    page,            \* elements of the page while a click is dispatched
    results,         \* what each finished call handed to its caller
    gRuns,           \* calls of run_journey started so far
    gUsed,           \* sum of max_steps over the calls started so far
    gBrowser,        \* the call launched a browser
    gLoadAbort,      \* the call ends because both load strategies failed
    gClose,          \* browser.close() invocations of the active call
    gCalls,          \* Navigator/Oracle operations invoked by the active call
    gFailed,         \* steps of the active call whose screenshot / score() raised
                     \* or whose click no strategy completed
    gArgs,           \* screenshot handed to the last decide() and score()
    gCbRaised,       \* a progress notification of the active call raised
    gBase            \* Len(self.screenshots) when the active call started

vars == << screenshots, action_history, pc, max_steps, observer, step,
           page_loaded, screenshot_path, decision, ux_analysis, clicked,
           strategy, page, results, gRuns, gUsed, gBrowser, gLoadAbort,
           gClose, gCalls, gFailed, gArgs, gCbRaised, gBase >>

\* ------------------------------------------------------- values
NoValue == "none"

Observers == {"none", "callback"}

\* A progress notification returns (TRUE) or raises (FALSE).  Without a
\* callback the guarded call is not made at all.
CbOutcomes == IF observer = "callback" THEN {TRUE, FALSE} ELSE {TRUE}

\* The three action kinds the prompt asks for, and one it does not.
Actions == {"click", "scroll", "finish"}

\* JSON objects the Oracle may answer decide() with: complete ones, the
\* bare {"action": ...} object that has no "label" key, and one whose
\* action is none of the three kinds.
OracleDecisions ==
    { [action |-> a, label |-> "Sign In"] : a \in Actions \cup {"hover"} }
      \cup { [action |-> a] : a \in Actions }

\* JSON object the Oracle answers score() with.
OracleUx == [page_type |-> "signup", conversion_score |-> 75,
             overall_assessment |-> "summary"]

\* get_ai_decision: the parsed answer, or the default of the except branch.
DegradedDecision == [action |-> "finish", label |-> "Analysis complete"]

get_ai_decision(ok, answer) == IF ok THEN answer ELSE DegradedDecision

\* analyze_screenshot_ux: the parsed answer, or the default of the except
\* branch.
DegradedUx == [page_type |-> "unknown", conversion_score |-> 0,
               overall_assessment |-> "Analysis error"]

analyze_screenshot_ux(ok, answer) == IF ok THEN answer ELSE DegradedUx

HasLabel(d) == "label" \in DOMAIN d

\* The four locator strategies of the click dispatch, in list order:
\* get_by_text(label, exact=False), get_by_role("button", name=label),
\* get_by_role("link", name=label), locator(f"text={label}").
Strategies ==
    << [locator |-> "get_by_text", exact |-> FALSE, role |-> "any"],
       [locator |-> "get_by_role", exact |-> FALSE, role |-> "button"],
       [locator |-> "get_by_role", exact |-> FALSE, role |-> "link"],
       [locator |-> "text=",       exact |-> FALSE, role |-> "any"] >>

\* Texts as sequences of words.
Words(t) ==
    CASE t = "Sign In"     -> << "Sign", "In" >>
      [] t = "Sign In Now" -> << "Sign", "In", "Now" >>
      [] OTHER             -> << t >>

\* Substring match of a locator whose exact flag is off.
Contains(text, label) ==
    \E i \in 1..Len(Words(text)) :
        /\ i + Len(Words(label)) - 1 <= Len(Words(text))
        /\ SubSeq(Words(text), i, i + Len(Words(label)) - 1) = Words(label)

\* Elements a page may show.
Elements == { [text |-> "Sign In",     role |-> "button"],
              [text |-> "Sign In Now", role |-> "link"] }

Pages == SUBSET Elements

\* The elements of page pg that locator strategy s resolves for a label.
Matches(s, pg, label) ==
    { e \in pg :
        /\ IF s.exact THEN e.text = label ELSE Contains(e.text, label)
        /\ s.role \in {"any", e.role} }

\* Operations counted by gCalls; "click" counts completed clicks.
NoCalls == [screenshot |-> 0, decide |-> 0, score |-> 0, click |-> 0,
            scroll |-> 0]

Count(op) == [gCalls EXCEPT ![op] = @ + 1]

NoFailures == [screenshot |-> {}, score |-> {}, click |-> {}]

NoArgs == [decide |-> NoValue, score |-> NoValue]

\* ---------------------------------------------------------------- Init
\* State after MysteryShopperAI(api_key): both lists empty, no call active.
Init ==
    /\ screenshots = << >>
    /\ action_history = << >>
    /\ pc = "idle"
    /\ max_steps = 1
    /\ observer = "none"
    /\ step = 0
    /\ page_loaded = FALSE
    /\ screenshot_path = NoValue
    /\ decision = NoValue
    /\ ux_analysis = NoValue
    /\ clicked = FALSE
    /\ strategy = 0
    /\ page = {}
    /\ results = << >>
    /\ gRuns = 0
    /\ gUsed = 0
    /\ gBrowser = FALSE
    /\ gLoadAbort = FALSE
    /\ gClose = 0
    /\ gCalls = NoCalls
    /\ gFailed = NoFailures
    /\ gArgs = NoArgs
    /\ gCbRaised = FALSE
    /\ gBase = 0

\* ------------------------------------------------------- frame helpers
Instance == << screenshots, action_history >>
Params   == << max_steps, observer, gRuns, gUsed, gBase >>
Frame    == << Params, gArgs >>
StepLocals == << screenshot_path, decision, ux_analysis >>
ClickLocals == << clicked, strategy, page >>

\* A progress notification with outcome r leaves its mark on gCbRaised.
Notified(r) == gCbRaised' = (gCbRaised \/ ~r)

\* The next iteration of "for step in range(1, max_steps + 1)", or the
\* statement after the loop when the range is exhausted.
Continue ==
    IF step < max_steps
    THEN /\ step' = step + 1
         /\ pc' = "screenshot"
    ELSE /\ step' = step
         /\ pc' = "close"

\* ------------------------------------------------------------- actions
\* A caller invokes run_journey(start_url, goal, ms, cb) on the instance.
Call(ms, obs) ==
    /\ pc \in {"idle", "returned", "raised"}
    /\ gRuns < MaxRuns
    /\ gUsed + ms <= MaxSteps
    /\ pc' = "playwright"
    /\ max_steps' = ms
    /\ observer' = obs
    /\ step' = 0
    /\ page_loaded' = FALSE
    /\ screenshot_path' = NoValue
    /\ decision' = NoValue
    /\ ux_analysis' = NoValue
    /\ clicked' = FALSE
    /\ strategy' = 0
    /\ page' = {}
    /\ gRuns' = gRuns + 1
    /\ gUsed' = gUsed + ms
    /\ gBrowser' = FALSE
    /\ gLoadAbort' = FALSE
    /\ gClose' = 0
    /\ gCalls' = NoCalls
    /\ gFailed' = NoFailures
    /\ gArgs' = NoArgs
    /\ gCbRaised' = FALSE
    /\ gBase' = Len(screenshots)
    /\ UNCHANGED << Instance, results >>

\* line 112: "async with async_playwright() as p" is outside the try.
EnterPlaywright ==
    /\ pc = "playwright"
    /\ \E ok \in BOOLEAN :
          IF ok
          THEN pc' = "launch" /\ results' = results
          ELSE pc' = "raised" /\ results' = Append(results, "raised")
    /\ UNCHANGED << Instance, Frame, step, page_loaded, StepLocals,
                    ClickLocals, gBrowser, gLoadAbort, gClose, gCalls,
                    gFailed, gCbRaised >>

\* lines 115-134: launch, new_context, new_page, first notification.
Launch ==
    /\ pc = "launch"
    /\ \E ok \in BOOLEAN, r \in CbOutcomes :
          IF ~ok
          THEN /\ pc' = "fatal"
               /\ UNCHANGED << gBrowser, gCbRaised >>
          ELSE /\ gBrowser' = TRUE
               /\ Notified(r)
               /\ pc' = IF r THEN "load1" ELSE "fatal"
    /\ UNCHANGED << Instance, Frame, step, page_loaded, StepLocals,
                    ClickLocals, results, gLoadAbort, gClose, gCalls,
                    gFailed >>

\* lines 137-147: strategy 1, goto(wait_until="commit").  A notification
\* that raises at line 144 is caught by "except Exception as e1" as well.
Load1 ==
    /\ pc = "load1"
    /\ \E ok \in BOOLEAN, r1 \in CbOutcomes, r2 \in CbOutcomes :
          IF ok /\ r1
          THEN /\ page_loaded' = TRUE
               /\ gCbRaised' = gCbRaised
               /\ pc' = "loaded"
          ELSE /\ page_loaded' = ok
               /\ gCbRaised' = (gCbRaised \/ (ok /\ ~r1) \/ ~r2)
               /\ pc' = IF r2 THEN "load2" ELSE "fatal"
    /\ UNCHANGED << Instance, Frame, step, StepLocals, ClickLocals,
                    results, gBrowser, gLoadAbort, gClose, gCalls,
                    gFailed >>

\* lines 148-156: strategy 2, plain goto; on failure notify, close, return [].
Load2 ==
    /\ pc = "load2"
    /\ \E ok \in BOOLEAN, r \in CbOutcomes, closed \in BOOLEAN :
          IF ok
          THEN /\ page_loaded' = TRUE
               /\ pc' = "loaded"
               /\ UNCHANGED << gCbRaised, gClose, results, gLoadAbort >>
          ELSE /\ page_loaded' = page_loaded
               /\ gLoadAbort' = ~page_loaded
               /\ Notified(r)
               /\ IF ~r
                  THEN pc' = "fatal" /\ UNCHANGED << gClose, results >>
                  ELSE /\ gClose' = gClose + 1
                       /\ IF closed
                          THEN /\ pc' = "returned"
                               /\ results' = Append(results, "empty")
                          ELSE /\ pc' = "fatal"
                               /\ results' = results
    /\ UNCHANGED << Instance, Frame, step, StepLocals, ClickLocals,
                    gBrowser, gCalls, gFailed >>

\* lines 158-163: the page_loaded check and the loop header.
Loaded ==
    /\ pc = "loaded"
    /\ IF ~page_loaded
       THEN /\ gClose' = gClose + 1
            /\ pc' = "returned"
            /\ results' = Append(results, "empty")
            /\ step' = step
       ELSE /\ Continue
            /\ UNCHANGED << gClose, results >>
    /\ UNCHANGED << Instance, Frame, page_loaded, StepLocals, ClickLocals,
                    gBrowser, gLoadAbort, gCalls, gFailed, gCbRaised >>

\* line 176: "continue" after a failed screenshot.
ScreenshotFailed == Continue

\* lines 164-179: settle, take the screenshot, notify.  "continue" on a
\* failed screenshot; a notification that raises goes to the step handler.
Screenshot ==
    /\ pc = "screenshot"
    /\ gCalls' = Count("screenshot")
    /\ screenshot_path' = << step, gRuns >>
    /\ \E ok \in BOOLEAN, r \in CbOutcomes :
          /\ Notified(r)
          /\ gFailed' = IF ok THEN gFailed
                              ELSE [gFailed EXCEPT !.screenshot = @ \cup {step}]
          /\ IF ~r
             THEN pc' = "step_error" /\ step' = step
             ELSE IF ok
                  THEN pc' = "decide" /\ step' = step
                  ELSE ScreenshotFailed
    /\ UNCHANGED << Instance, Frame, page_loaded, decision, ux_analysis,
                    ClickLocals, results, gBrowser, gLoadAbort, gClose >>

\* line 182: decision = await self.get_ai_decision(...).
Decide ==
    /\ pc = "decide"
    /\ gCalls' = Count("decide")
    /\ \E ok \in BOOLEAN, answer \in OracleDecisions :
          decision' = get_ai_decision(ok, answer)
    /\ gArgs' = [gArgs EXCEPT !.decide = screenshot_path]
    /\ pc' = "score"
    /\ UNCHANGED << Instance, Params, step, page_loaded, screenshot_path,
                    ux_analysis, ClickLocals, results, gBrowser, gLoadAbort, gClose,
                    gFailed, gCbRaised >>

\* Score as it would be if analyze_screenshot_ux had no except branch: the
\* exception of a failed score() reaches the handler at the step boundary.
Score_Unguarded ==
    /\ pc = "score"
    /\ gCalls' = Count("score")
    /\ gArgs' = [gArgs EXCEPT !.score = screenshot_path]
    /\ \E ok \in BOOLEAN :
          /\ ux_analysis' = IF ok THEN OracleUx ELSE ux_analysis
          /\ gFailed' = IF ok THEN gFailed
                              ELSE [gFailed EXCEPT !.score = @ \cup {step}]
          /\ pc' = IF ok THEN "store" ELSE "step_error"
    /\ UNCHANGED << Instance, Params, step, page_loaded, screenshot_path,
                    decision, ClickLocals, results, gBrowser, gLoadAbort, gClose,
                    gCbRaised >>

\* line 183: ux_analysis = await self.analyze_screenshot_ux(...).
Score ==
    /\ pc = "score"
    /\ gCalls' = Count("score")
    /\ gArgs' = [gArgs EXCEPT !.score = screenshot_path]
    /\ \E ok \in BOOLEAN :
          /\ ux_analysis' = analyze_screenshot_ux(ok, OracleUx)
          /\ gFailed' = IF ok THEN gFailed
                              ELSE [gFailed EXCEPT !.score = @ \cup {step}]
    /\ pc' = "store"
    /\ UNCHANGED << Instance, Params, step, page_loaded, screenshot_path,
                    decision, ClickLocals, results, gBrowser, gLoadAbort, gClose,
                    gCbRaised >>

\* The StepRecord appended at lines 186-192.
StepRecord == [path |-> screenshot_path, step |-> step,
               decision |-> decision, ux_analysis |-> ux_analysis]

\* Store as it would be if the record were appended only after the step's
\* action: the step goes on to its notification and dispatch without it.
Store_Deferred ==
    /\ pc = "store"
    /\ screenshots' = screenshots
    /\ pc' = "notify"
    /\ UNCHANGED << action_history, Frame, step, page_loaded, StepLocals,
                    ClickLocals, results, gBrowser, gLoadAbort, gClose, gCalls,
                    gFailed, gCbRaised >>

\* lines 186-192: self.screenshots.append({...}).
Store ==
    /\ pc = "store"
    /\ screenshots' = Append(screenshots, StepRecord)
    /\ pc' = "notify"
    /\ UNCHANGED << action_history, Frame, step, page_loaded, StepLocals,
                    ClickLocals, results, gBrowser, gLoadAbort, gClose, gCalls,
                    gFailed, gCbRaised >>

\* lines 194-198: the notification that formats decision['action'] and
\* decision['label'][:40]; evaluated only when a callback was given.  A
\* missing key raises KeyError before the callback is called.
NotifyDecision ==
    /\ pc = "notify"
    /\ IF observer = "none"
       THEN pc' = "dispatch" /\ gCbRaised' = gCbRaised
       ELSE IF ~HasLabel(decision)
            THEN pc' = "step_error" /\ gCbRaised' = gCbRaised
            ELSE \E r \in CbOutcomes :
                    /\ Notified(r)
                    /\ pc' = IF r THEN "dispatch" ELSE "step_error"
    /\ UNCHANGED << Instance, Frame, step, page_loaded, StepLocals,
                    ClickLocals, results, gBrowser, gLoadAbort, gClose, gCalls,
                    gFailed >>

\* lines 200-208 and 230-237: the if/elif chain on decision['action'].
Dispatch ==
    /\ pc = "dispatch"
    /\ CASE decision.action = "finish" ->
              \E r \in CbOutcomes :
                 /\ Notified(r)
                 /\ pc' = IF r THEN "close" ELSE "step_error"
                 /\ UNCHANGED << step, ClickLocals, gCalls >>
         [] decision.action = "click" ->
              /\ clicked' = FALSE
              /\ IF HasLabel(decision)
                 THEN /\ pc' = "click"
                      /\ strategy' = 1
                      /\ page' \in Pages
                 ELSE /\ pc' = "step_error"
                      /\ strategy' = strategy
                      /\ page' = page
              /\ UNCHANGED << step, gCalls, gCbRaised >>
         [] decision.action = "scroll" ->
              /\ gCalls' = Count("scroll")
              /\ Continue
              /\ UNCHANGED << ClickLocals, gCbRaised >>
         [] OTHER ->
              /\ Continue
              /\ UNCHANGED << ClickLocals, gCalls, gCbRaised >>
    /\ UNCHANGED << Instance, Frame, page_loaded, StepLocals, results,
                    gBrowser, gLoadAbort, gClose, gFailed >>

\* ClickStrategy as it would be without the break of line 223: after a
\* completed click the loop goes on to the strategies that are left.
ClickStrategy_NoBreak ==
    /\ pc = "click"
    /\ page' = page
    /\ \E ok \in (IF Matches(Strategies[strategy], page, decision.label) # {}
                  THEN BOOLEAN ELSE {FALSE}) :
          /\ clicked' = (clicked \/ ok)
          /\ gCalls' = IF ok THEN Count("click") ELSE gCalls
          /\ action_history' =
                IF ok THEN Append(action_history, << "Clicked", decision.label >>)
                      ELSE action_history
          /\ IF strategy < Len(Strategies)
             THEN strategy' = strategy + 1 /\ pc' = "click"
             ELSE strategy' = strategy /\ pc' = "after_click"
    /\ gFailed' = IF pc' = "after_click" /\ ~clicked'
                  THEN [gFailed EXCEPT !.click = @ \cup {step}]
                  ELSE gFailed
    /\ UNCHANGED << screenshots, Frame, step, page_loaded, StepLocals,
                    results, gBrowser, gLoadAbort, gClose, gCbRaised >>

\* lines 211-225: one turn of the loop over the locator strategies.  The
\* click completes only on an element the strategy resolves, and may time
\* out even then.
ClickStrategy ==
    /\ pc = "click"
    /\ page' = page
    /\ \E ok \in (IF Matches(Strategies[strategy], page, decision.label) # {}
                  THEN BOOLEAN ELSE {FALSE}) :
          IF ok
          THEN /\ clicked' = TRUE
               /\ gCalls' = Count("click")
               /\ action_history' =
                     Append(action_history, << "Clicked", decision.label >>)
               /\ strategy' = strategy
               /\ pc' = "after_click"
          ELSE /\ clicked' = clicked
               /\ gCalls' = gCalls
               /\ action_history' = action_history
               /\ IF strategy < Len(Strategies)
                  THEN strategy' = strategy + 1 /\ pc' = "click"
                  ELSE strategy' = strategy /\ pc' = "after_click"
    /\ gFailed' = IF pc' = "after_click" /\ ~clicked'
                  THEN [gFailed EXCEPT !.click = @ \cup {step}]
                  ELSE gFailed
    /\ UNCHANGED << screenshots, Frame, step, page_loaded, StepLocals,
                    results, gBrowser, gLoadAbort, gClose, gCbRaised >>

\* lines 227-228 and 237: report a click that no strategy completed.
\* clicked, the strategy iterator and the page the click met are dead from
\* here until line 207; they are put back to their initial values.
AfterClick ==
    /\ pc = "after_click"
    /\ clicked' = FALSE
    /\ strategy' = 0
    /\ page' = {}
    /\ IF clicked
       THEN Continue /\ gCbRaised' = gCbRaised
       ELSE \E r \in CbOutcomes :
               /\ Notified(r)
               /\ IF r THEN Continue
                       ELSE pc' = "step_error" /\ step' = step
    /\ UNCHANGED << Instance, Frame, page_loaded, StepLocals, results,
                    gBrowser, gLoadAbort, gClose, gCalls, gFailed >>

\* lines 239-243: the handler at the step boundary.
StepError ==
    /\ pc = "step_error"
    /\ \E r \in CbOutcomes :
          /\ Notified(r)
          /\ IF r THEN Continue
                  ELSE pc' = "fatal" /\ step' = step
    /\ UNCHANGED << Instance, Frame, page_loaded, StepLocals, ClickLocals,
                    results, gBrowser, gLoadAbort, gClose, gCalls, gFailed >>

\* lines 245-250: close the browser, notify, return self.screenshots (the
\* list object itself, not a copy).
Close ==
    /\ pc = "close"
    /\ gClose' = gClose + 1
    /\ \E closed \in BOOLEAN, r \in CbOutcomes :
          IF ~closed
          THEN pc' = "fatal" /\ UNCHANGED << results, gCbRaised >>
          ELSE /\ Notified(r)
               /\ IF r
                  THEN /\ pc' = "returned"
                       /\ results' = Append(results, "self.screenshots")
                  ELSE /\ pc' = "fatal"
                       /\ results' = results
    /\ UNCHANGED << Instance, Frame, step, page_loaded, StepLocals,
                    ClickLocals, gBrowser, gLoadAbort, gCalls, gFailed >>

\* lines 252-255: the outer handler: notify, return [].  A notification
\* that raises here leaves run_journey as an exception.
Fatal ==
    /\ pc = "fatal"
    /\ \E r \in CbOutcomes :
          /\ Notified(r)
          /\ IF r
             THEN pc' = "returned" /\ results' = Append(results, "empty")
             ELSE pc' = "raised" /\ results' = Append(results, "raised")
    /\ UNCHANGED << Instance, Frame, step, page_loaded, StepLocals,
                    ClickLocals, gBrowser, gLoadAbort, gClose, gCalls,
                    gFailed >>

Next ==
    \/ \E ms \in 1..MaxSteps, obs \in Observers : Call(ms, obs)
    \/ EnterPlaywright
    \/ Launch
    \/ Load1
    \/ Load2
    \/ Loaded
    \/ Screenshot
    \/ Decide
    \/ Score
    \/ Store
    \/ NotifyDecision
    \/ Dispatch
    \/ ClickStrategy
    \/ AfterClick
    \/ StepError
    \/ Close
    \/ Fatal

Spec == Init /\ [][Next]_vars

\* ------------------------------------------------- derived quantities
\* The list a finished call handed back: the live self.screenshots object,
\* or a fresh empty list.
Returned(r) == IF results[r] = "self.screenshots" THEN screenshots ELSE << >>

Done == pc \in {"returned", "raised"}

TypeOK ==
    /\ pc \in {"idle", "playwright", "launch", "load1", "load2", "loaded",
               "screenshot", "decide", "score", "store", "notify",
               "dispatch", "click", "after_click", "step_error", "close",
               "fatal", "returned", "raised"}
    /\ step \in 0..max_steps
    /\ gRuns \in 0..MaxRuns
    /\ Len(results) \in {gRuns, gRuns - 1}

\* Positions of the records the active call appended to self.screenshots.
RunIdx == (gBase + 1)..Len(screenshots)

\* The list the last finished call handed to its caller.
Result == Returned(Len(results))

\* ------------------------------------------------------------- claims

\* C1: on every exit path of run_journey that the claim lists (finish,
\* step exhaustion, both load strategies failed, an exception that left
\* the step loop for the outer handler) browser.close() has been invoked
\* exactly once when run_journey returns.
C1_CloseExactlyOnce ==
    (pc = "returned" /\ gBrowser /\ (gLoadAbort \/ step >= 1)) => gClose = 1

\* C2: the list a call of run_journey returns holds at most max_steps
\* StepRecords.
C2_LengthBound ==
    pc = "returned" => Len(Result) <= max_steps

\* C3: when both load strategies failed, run_journey returns the empty
\* list, no step was attempted (no screenshot, no Oracle call, no action,
\* no record) and close() was invoked exactly once.
C3_LoadFailure ==
    (gLoadAbort /\ pc = "returned") =>
        /\ results[Len(results)] = "empty"
        /\ step = 0
        /\ gCalls = NoCalls
        /\ Len(screenshots) = gBase
        /\ gClose = 1

\* C4: a StepRecord whose decision has action finish is the last record of
\* its journey and no later step is started: the loop variable never moves
\* past the step of that record.  Stated for the runs in which no progress
\* notification raised, the claim's weakest case.
C4_FinishEndsJourney ==
    ~gCbRaised =>
        \A i \in RunIdx :
            screenshots[i].decision.action = "finish" =>
                /\ i = Len(screenshots)
                /\ step = screenshots[i].step

\* C5: when the load and every screenshot succeeded and every decision of
\* the run was scroll, the returned list has exactly max_steps records and
\* scroll was invoked exactly max_steps times.  Stated for the runs that
\* returned self.screenshots and in which no progress notification raised.
C5_ScrollScenario ==
    ( /\ pc = "returned"
      /\ results[Len(results)] = "self.screenshots"
      /\ ~gCbRaised
      /\ gFailed.screenshot = {}
      /\ \A i \in RunIdx : screenshots[i].decision.action = "scroll" ) =>
        /\ Len(Result) = max_steps
        /\ gCalls.scroll = max_steps

\* C6, state part: a record of the active call carries the degraded
\* analysis (conversion_score 0, diagnostic assessment) exactly when
\* score() raised at its step; every other record carries the Oracle's
\* answer, as it would without the failure.
C6_Records ==
    \A i \in RunIdx :
        IF screenshots[i].step \in gFailed.score
        THEN /\ screenshots[i].ux_analysis.conversion_score = 0
             /\ screenshots[i].ux_analysis.overall_assessment = "Analysis error"
        ELSE screenshots[i].ux_analysis = OracleUx

\* C6, step part: whatever score() did, the step goes on to store its
\* record with the decision untouched, and a step whose score() raised
\* dispatches its decision: finish leaves the loop, click starts the
\* locator strategies, scroll scrolls.
C6_Steps ==
    /\ pc = "score" =>
          /\ pc' = "store"
          /\ decision' = decision
          /\ step' = step
    /\ pc = "store" =>
          /\ pc' = "notify"
          /\ screenshots' = Append(screenshots, StepRecord)
    /\ (pc = "dispatch" /\ step \in gFailed.score) =>
          CASE decision.action = "finish" /\ ~gCbRaised' -> pc' = "close"
            [] decision.action = "click" /\ HasLabel(decision) -> pc' = "click"
            [] decision.action = "scroll" -> gCalls'.scroll = gCalls.scroll + 1
            [] OTHER -> TRUE

C7_ScreenshotFailureSkips ==
    /\ \A i \in RunIdx : screenshots[i].step \notin gFailed.screenshot
    /\ step \in gFailed.screenshot =>
          /\ pc \notin {"decide", "score", "store", "notify", "dispatch",
                        "click", "after_click"}
          /\ pc \in {"fatal", "returned", "raised"} => step = max_steps

\* C8: in the returned journey the first record has step index 1 and every
\* later record a strictly larger index than the record before it.
C8_StepIndices ==
    pc = "returned" =>
        /\ Len(Result) > 0 => Result[1].step = 1
        /\ \A i \in 1..(Len(Result) - 1) : Result[i].step < Result[i + 1].step

\* C9: run_journey never raises to its caller.
C9_NeverRaises == pc # "raised"

\* C10: the progress observer does not change control flow: from the
\* notification of lines 194-198 a run goes on to dispatch the decision,
\* as a run without an observer does, whenever the observer returns.
C10_ObserverNoEffect ==
    [][(pc = "notify" /\ ~gCbRaised') => pc' = "dispatch"]_vars

\* C11: journeys share no state: a call of run_journey starts with an empty
\* self.screenshots and an empty self.action_history, the list it returns
\* holds only the records it appended, and a list an earlier call returned
\* is not changed afterwards.
C11_NoSharedState ==
    /\ pc = "playwright" => (screenshots = << >> /\ action_history = << >>)
    /\ pc = "returned" =>
          \A i \in 1..Len(Result) : Result[i].path[2] = gRuns
    /\ \A r \in 1..Len(results) :
          (r < gRuns /\ results[r] = "self.screenshots") =>
              Len(Returned(r)) <= gBase

\* C12: a click whose label none of the four locator strategies can click
\* raises nothing and does not end the journey: the run is over at such a
\* step only when it was the last slot of the range.
C12_FailedClickContinues ==
    step \in gFailed.click =>
        /\ pc # "raised"
        /\ pc \in {"fatal", "returned"} => step = max_steps

\* C13: in every step decide() is called before score(), both are given
\* the screenshot captured in that step, both have returned before the
\* StepRecord is appended, and the StepRecord (holding that screenshot and
\* both results) is appended before the step's action is dispatched.
C13_DecideScoreStoreDispatch ==
    LET n == Len(screenshots) - gBase
    IN  /\ pc = "score" =>
              /\ gCalls.decide = n + 1 /\ gCalls.score = n
              /\ gArgs.decide = screenshot_path
              /\ screenshot_path = << step, gRuns >>
        /\ pc = "store" =>
              /\ gCalls.decide = n + 1 /\ gCalls.score = n + 1
              /\ gArgs.decide = screenshot_path
              /\ gArgs.score = screenshot_path
              /\ screenshot_path = << step, gRuns >>
        /\ pc \in {"notify", "dispatch", "click", "after_click"} =>
              /\ gCalls.decide = n /\ gCalls.score = n
              /\ n >= 1
              /\ screenshots[Len(screenshots)] = StepRecord
              /\ gArgs.decide = screenshots[Len(screenshots)].path
              /\ gArgs.score = screenshots[Len(screenshots)].path
        /\ gCalls.click + gCalls.scroll <= n

\* A second step reaches the dispatch of a click with both Oracle calls of
\* both steps made and both records stored.
C13_Witness ==
    /\ pc = "dispatch"
    /\ decision.action = "click"
    /\ gCalls.decide = 2
    /\ gCalls.score = 2
    /\ Len(screenshots) - gBase = 2
    /\ screenshots[Len(screenshots)].path = << 2, gRuns >>

\* C14: every step whose decision is click appends exactly one entry to the
\* action history, whether a strategy completed the click or all of them
\* failed: the loop over the strategies ends with one entry more.
C14_ClickAppendsOnce ==
    [][(pc = "click" /\ pc' = "after_click") =>
          Len(action_history') = Len(action_history) + 1]_vars

\* C15: an exception raised in a step's body after the screenshot (here,
\* after the record of the step was appended) is caught at the step
\* boundary: the handler does not retry the step, goes on with the next
\* step index (or ends the loop after the last one) and keeps every record
\* appended so far.
C15_StepErrorContinues ==
    [][(pc = "step_error" /\ RunIdx # {}
                          /\ screenshots[Len(screenshots)].step = step) =>
          /\ pc' = IF step < max_steps THEN "screenshot" ELSE "close"
          /\ step' = IF step < max_steps THEN step + 1 ELSE step
          /\ screenshots' = screenshots]_vars

\* C16 as stated: the first strategy is an exact text match, so a click
\* completed by a strategy was made on an element that strategy resolves,
\* the first one resolving only elements whose text is the label itself.
C16_FirstStrategyExact ==
    [][(pc = "click" /\ clicked') =>
          LET Claimed == [Strategies EXCEPT ![1].exact = TRUE]
          IN  Matches(Claimed[strategy], page, decision.label) # {}]_vars

\* The clicks performed in the current run never outnumber its click steps.
C16_OneClickPerStep ==
    gCalls.click <=
        Cardinality({ i \in RunIdx : screenshots[i].decision.action = "click" })

\* One turn of the strategy loop: entered at the first strategy, advanced
\* by one after a failed click, left at the first completed click.
C16_Turn ==
    /\ (pc # "click" /\ pc' = "click") => strategy' = 1
    /\ (pc = "click" /\ pc' = "click") =>
          /\ strategy' = strategy + 1
          /\ ~clicked'
          /\ gCalls' = gCalls
    /\ (pc = "click" /\ clicked') =>
          /\ pc' = "after_click"
          /\ gCalls'.click = gCalls.click + 1
          /\ Matches(Strategies[strategy], page, decision.label) # {}
    /\ (pc = "click" /\ pc' = "after_click" /\ ~clicked') =>
          strategy = Len(Strategies)

\* C16, amended: a click dispatch tries the locator strategies in the
\* order substring text match (get_by_text with exact=False), role button
\* by name, role link by name, text= selector, and stops at the first
\* strategy whose click completes: no later strategy is tried after a
\* success, so at most one click is performed per step.
C16_StrategyOrder ==
    /\ Strategies[1] = [locator |-> "get_by_text", exact |-> FALSE, role |-> "any"]
    /\ Strategies[2].role = "button"
    /\ Strategies[3].role = "link"
    /\ Strategies[4].locator = "text="
    /\ [](C16_OneClickPerStep)
    /\ [][C16_Turn]_vars

\* The third strategy completed the click on a page whose only element is a
\* link that contains the label without being equal to it.
C16_Witness ==
    /\ pc = "after_click"
    /\ clicked
    /\ strategy = 3
    /\ page = { [text |-> "Sign In Now", role |-> "link"] }
    /\ decision.label = "Sign In"

====
